---- MODULE Spec2Model ----
(***************************************************************************)
(* ai-tokens: pricing catalog (data/pricing.ts, data/pricing-fetcher.ts),  *)
(* tokenizer dispatch (core/tokenizer.ts), cost estimator and comparator   *)
(* (core/cost-calculator.ts), the comparison table (ui/formatter.ts) and   *)
(* the count / compare commands (cli/index.ts).                            *)
(*                                                                         *)
(* Numbers.  JavaScript numbers are modelled as exact rationals plus the   *)
(* three non-finite values NaN, Infinity and -Infinity; IEEE rounding is   *)
(* not modelled.  Every amount is in USD.                                  *)
(***************************************************************************)
EXTENDS Integers, Sequences, FiniteSets, TLC

\* Model keys are JavaScript strings, held as sequences of characters.
K_gpt_4o == <<"g", "p", "t", "-", "4", "o">>
K_gpt_4o_mini == <<"g", "p", "t", "-", "4", "o", "-", "m", "i", "n", "i">>
K_gpt_4_turbo == <<"g", "p", "t", "-", "4", "-", "t", "u", "r", "b", "o">>
K_gpt_4 == <<"g", "p", "t", "-", "4">>
K_gpt_3_5_turbo == <<"g", "p", "t", "-", "3", ".", "5", "-", "t", "u", "r", "b", "o">>
K_claude_opus_4 == <<"c", "l", "a", "u", "d", "e", "-", "o", "p", "u", "s", "-", "4">>
K_claude_sonnet_4 == <<"c", "l", "a", "u", "d", "e", "-", "s", "o", "n", "n", "e", "t", "-", "4">>
K_claude_sonnet_3_5 == <<"c", "l", "a", "u", "d", "e", "-", "s", "o", "n", "n", "e", "t", "-", "3", "-", "5">>
K_claude_haiku_3_5 == <<"c", "l", "a", "u", "d", "e", "-", "h", "a", "i", "k", "u", "-", "3", "-", "5">>
K_claude_3_opus == <<"c", "l", "a", "u", "d", "e", "-", "3", "-", "o", "p", "u", "s">>
K_claude_3_sonnet == <<"c", "l", "a", "u", "d", "e", "-", "3", "-", "s", "o", "n", "n", "e", "t">>
K_claude_3_haiku == <<"c", "l", "a", "u", "d", "e", "-", "3", "-", "h", "a", "i", "k", "u">>
K_gemini_2_0_flash == <<"g", "e", "m", "i", "n", "i", "-", "2", ".", "0", "-", "f", "l", "a", "s", "h">>
K_gemini_1_5_pro == <<"g", "e", "m", "i", "n", "i", "-", "1", ".", "5", "-", "p", "r", "o">>
K_gemini_1_5_flash == <<"g", "e", "m", "i", "n", "i", "-", "1", ".", "5", "-", "f", "l", "a", "s", "h">>
K_llama_3_1_405b == <<"l", "l", "a", "m", "a", "-", "3", ".", "1", "-", "4", "0", "5", "b">>
K_llama_3_1_70b == <<"l", "l", "a", "m", "a", "-", "3", ".", "1", "-", "7", "0", "b">>
K_llama_3_1_8b == <<"l", "l", "a", "m", "a", "-", "3", ".", "1", "-", "8", "b">>
K_gpt4o == <<"g", "p", "t", "4", "o">>
K_gpt4 == <<"g", "p", "t", "4">>
K_gpt_4_0125_preview == <<"g", "p", "t", "-", "4", "-", "0", "1", "2", "5", "-", "p", "r", "e", "v", "i", "e", "w">>
K_gpt_4_1106_preview == <<"g", "p", "t", "-", "4", "-", "1", "1", "0", "6", "-", "p", "r", "e", "v", "i", "e", "w">>
K_gpt35 == <<"g", "p", "t", "3", "5">>
K_gpt_3_5 == <<"g", "p", "t", "-", "3", ".", "5">>
K_opus_4 == <<"o", "p", "u", "s", "-", "4">>
K_sonnet_4 == <<"s", "o", "n", "n", "e", "t", "-", "4">>
K_haiku_3_5 == <<"h", "a", "i", "k", "u", "-", "3", ".", "5">>
K_opus == <<"o", "p", "u", "s">>
K_sonnet == <<"s", "o", "n", "n", "e", "t">>
K_haiku == <<"h", "a", "i", "k", "u">>
K_gemini_pro == <<"g", "e", "m", "i", "n", "i", "-", "p", "r", "o">>
K_gemini_flash == <<"g", "e", "m", "i", "n", "i", "-", "f", "l", "a", "s", "h">>
K_gemini == <<"g", "e", "m", "i", "n", "i">>
K_GPT_4O == <<"G", "P", "T", "-", "4", "O">>
K_GPT4o == <<"G", "P", "T", "4", "o">>
K_Gpt_3_5_Turbo == <<"G", "p", "t", "-", "3", ".", "5", "-", "T", "u", "r", "b", "o">>
K_not_a_model == <<"n", "o", "t", "-", "a", "-", "m", "o", "d", "e", "l">>
K_constructor == <<"c", "o", "n", "s", "t", "r", "u", "c", "t", "o", "r">>
K___proto__ == <<"_", "_", "p", "r", "o", "t", "o", "_", "_">>
K_gpt_5 == <<"g", "p", "t", "-", "5">>
K_claude_3_5_haiku_20241022 == <<"c", "l", "a", "u", "d", "e", "-", "3", "-", "5", "-", "h", "a", "i", "k", "u", "-", "2", "0", "2", "4", "1", "0", "2", "2">>
K_unlisted_model == <<"u", "n", "l", "i", "s", "t", "e", "d", "-", "m", "o", "d", "e", "l">>

\* The all-lowercase property names every plain object inherits from
\* Object.prototype: obj[k] is truthy for them although k is no own key.
K_undefined == <<"u", "n", "d", "e", "f", "i", "n", "e", "d">>
ObjectPrototypeKeys == {K_constructor, K___proto__}

(***************************************************************************)
(* Strings                                                                 *)
(***************************************************************************)
UpperToLower ==
    "A" :> "a" @@ "B" :> "b" @@ "C" :> "c" @@ "D" :> "d" @@ "E" :> "e" @@
    "F" :> "f" @@ "G" :> "g" @@ "H" :> "h" @@ "I" :> "i" @@ "J" :> "j" @@
    "K" :> "k" @@ "L" :> "l" @@ "M" :> "m" @@ "N" :> "n" @@ "O" :> "o" @@
    "P" :> "p" @@ "Q" :> "q" @@ "R" :> "r" @@ "S" :> "s" @@ "T" :> "t" @@
    "U" :> "u" @@ "V" :> "v" @@ "W" :> "w" @@ "X" :> "x" @@ "Y" :> "y" @@
    "Z" :> "z"

\* String.prototype.toLowerCase
toLowerCase(s) ==
    [i \in 1..Len(s) |-> IF s[i] \in DOMAIN UpperToLower THEN UpperToLower[s[i]] ELSE s[i]]

\* String.prototype.includes
includes(s, sub) ==
    \E i \in 0..(Len(s) - Len(sub)) : \A j \in 1..Len(sub) : s[i + j] = sub[j]

S_gpt == <<"g", "p", "t">>
S_claude == <<"c", "l", "a", "u", "d", "e">>
S_gemini == <<"g", "e", "m", "i", "n", "i">>
S_llama == <<"l", "l", "a", "m", "a">>

(***************************************************************************)
(* Numbers                                                                 *)
(***************************************************************************)
RECURSIVE GCD(_, _)
GCD(a, b) == IF b = 0 THEN a ELSE GCD(b, a % b)

Abs(x) == IF x < 0 THEN -x ELSE x

\* The rational n/d (d # 0) in lowest terms with a positive denominator.
Rat(n, d) ==
    LET g == GCD(Abs(n), Abs(d))
        s == IF d < 0 THEN -1 ELSE 1
    IN  [kind |-> "finite", num |-> (s * n) \div g, den |-> (s * d) \div g]

Num(n) == [kind |-> "finite", num |-> n, den |-> 1]
NaN == [kind |-> "NaN", num |-> 0, den |-> 1]
PosInfinity == [kind |-> "Infinity", num |-> 0, den |-> 1]
NegInfinity == [kind |-> "-Infinity", num |-> 0, den |-> 1]

IsFinite(x) == x.kind = "finite"
IsZero(x) == IsFinite(x) /\ x.num = 0
Sign(x) ==
    CASE x.kind = "Infinity" -> 1
      [] x.kind = "-Infinity" -> -1
      [] x.kind = "finite" -> (IF x.num > 0 THEN 1 ELSE IF x.num < 0 THEN -1 ELSE 0)
      [] OTHER -> 0
Inf(sign) == IF sign > 0 THEN PosInfinity ELSE NegInfinity

\* a + b
Add(a, b) ==
    CASE a.kind = "NaN" \/ b.kind = "NaN" -> NaN
      [] IsFinite(a) /\ IsFinite(b) ->
            LET g == GCD(a.den, b.den)
            IN  Rat(a.num * (b.den \div g) + b.num * (a.den \div g), (a.den \div g) * b.den)
      [] IsFinite(a) -> b
      [] IsFinite(b) -> a
      [] OTHER -> IF a.kind = b.kind THEN a ELSE NaN

Neg(a) ==
    CASE a.kind = "finite" -> [a EXCEPT !.num = -a.num]
      [] a.kind = "Infinity" -> NegInfinity
      [] a.kind = "-Infinity" -> PosInfinity
      [] OTHER -> NaN

\* a - b
Sub(a, b) == Add(a, Neg(b))

\* a * b, cancelling across the factors before multiplying
Mul(a, b) ==
    CASE a.kind = "NaN" \/ b.kind = "NaN" -> NaN
      [] IsFinite(a) /\ IsFinite(b) ->
            LET g1 == GCD(Abs(a.num), b.den)
                g2 == GCD(Abs(b.num), a.den)
            IN  Rat((a.num \div g1) * (b.num \div g2), (a.den \div g2) * (b.den \div g1))
      [] OTHER -> IF Sign(a) = 0 \/ Sign(b) = 0 THEN NaN ELSE Inf(Sign(a) * Sign(b))

\* a / b: 0/0 is NaN and x/0 is +-Infinity
Div(a, b) ==
    CASE a.kind = "NaN" \/ b.kind = "NaN" -> NaN
      [] IsFinite(a) /\ IsFinite(b) ->
            IF b.num = 0
            THEN (IF a.num = 0 THEN NaN ELSE Inf(Sign(a)))
            ELSE Mul(a, Rat(b.den, b.num))
      [] IsFinite(a) -> Num(0)
      [] IsFinite(b) -> Inf(Sign(a) * (IF b.num < 0 THEN -1 ELSE 1))
      [] OTHER -> NaN

\* a / b where b may be zero and where the program reads no more of the
\* quotient than its sign and whether it is finite: 0/0 is NaN, x/0 is
\* +-Infinity, and a finite quotient is held as dividend and divisor
\* (times a factor), not evaluated.
Quot(a, b) ==
    LET kind ==
            CASE a.kind = "NaN" \/ b.kind = "NaN" -> "NaN"
              [] IsFinite(a) /\ IsFinite(b) ->
                    IF b.num # 0 THEN "finite"
                    ELSE IF a.num = 0 THEN "NaN"
                    ELSE IF a.num > 0 THEN "Infinity" ELSE "-Infinity"
              [] IsFinite(b) ->
                    IF Sign(a) * (IF b.num < 0 THEN -1 ELSE 1) > 0 THEN "Infinity" ELSE "-Infinity"
              [] IsFinite(a) -> "finite"
              [] OTHER -> "NaN"
        sign ==
            CASE kind = "Infinity" -> 1
              [] kind = "-Infinity" -> -1
              [] kind = "finite" -> Sign(a) * Sign(b)
              [] OTHER -> 0
    IN  [kind |-> kind, sign |-> sign, dividend |-> a, divisor |-> b, times |-> 1]

\* q * k for a quotient q and a number k > 0
QTimes(q, k) == [q EXCEPT !.times = q.times * k]

\* Math.abs of a quotient
QAbs(q) ==
    [q EXCEPT !.kind = IF q.kind = "-Infinity" THEN "Infinity" ELSE q.kind,
              !.sign = IF q.sign < 0 THEN 1 ELSE q.sign]

NoQuot == Quot(NaN, NaN)

\* a > b and a < b; every comparison with NaN is false
Gt(a, b) ==
    CASE a.kind = "NaN" \/ b.kind = "NaN" -> FALSE
      [] IsFinite(a) \/ IsFinite(b) -> Sign(Sub(a, b)) > 0
      [] OTHER -> a.kind = "Infinity" /\ b.kind = "-Infinity"
Lt(a, b) == Gt(b, a)

\* A decimal literal with three places: Milli(75) is 0.075.
Milli(m) == Rat(m, 1000)

\* The literal 1_000_000
MILLION == 1000000

(***************************************************************************)
(* data/pricing.ts: the default table and the aliases                      *)
(***************************************************************************)
MODEL_PRICING ==
    K_gpt_4o :> [name |-> "GPT-4o", provider |-> "OpenAI", inputPricePerMillion |-> Milli(5000),
        outputPricePerMillion |-> Milli(15000), contextWindow |-> 128000, encoding |-> "cl100k_base"] @@
    K_gpt_4o_mini :> [name |-> "GPT-4o Mini", provider |-> "OpenAI", inputPricePerMillion |-> Milli(150),
        outputPricePerMillion |-> Milli(600), contextWindow |-> 128000, encoding |-> "cl100k_base"] @@
    K_gpt_4_turbo :> [name |-> "GPT-4 Turbo", provider |-> "OpenAI", inputPricePerMillion |-> Milli(10000),
        outputPricePerMillion |-> Milli(30000), contextWindow |-> 128000, encoding |-> "cl100k_base"] @@
    K_gpt_4 :> [name |-> "GPT-4", provider |-> "OpenAI", inputPricePerMillion |-> Milli(30000),
        outputPricePerMillion |-> Milli(60000), contextWindow |-> 8192, encoding |-> "cl100k_base"] @@
    K_gpt_3_5_turbo :> [name |-> "GPT-3.5 Turbo", provider |-> "OpenAI", inputPricePerMillion |-> Milli(500),
        outputPricePerMillion |-> Milli(1500), contextWindow |-> 16385, encoding |-> "cl100k_base"] @@
    K_claude_opus_4 :> [name |-> "Claude Opus 4", provider |-> "Anthropic", inputPricePerMillion |-> Milli(15000),
        outputPricePerMillion |-> Milli(75000), contextWindow |-> 200000, encoding |-> "undefined"] @@
    K_claude_sonnet_4 :> [name |-> "Claude Sonnet 4", provider |-> "Anthropic", inputPricePerMillion |-> Milli(3000),
        outputPricePerMillion |-> Milli(15000), contextWindow |-> 200000, encoding |-> "undefined"] @@
    K_claude_sonnet_3_5 :> [name |-> "Claude 3.5 Sonnet", provider |-> "Anthropic", inputPricePerMillion |-> Milli(3000),
        outputPricePerMillion |-> Milli(15000), contextWindow |-> 200000, encoding |-> "undefined"] @@
    K_claude_haiku_3_5 :> [name |-> "Claude 3.5 Haiku", provider |-> "Anthropic", inputPricePerMillion |-> Milli(1000),
        outputPricePerMillion |-> Milli(5000), contextWindow |-> 200000, encoding |-> "undefined"] @@
    K_claude_3_opus :> [name |-> "Claude 3 Opus", provider |-> "Anthropic", inputPricePerMillion |-> Milli(15000),
        outputPricePerMillion |-> Milli(75000), contextWindow |-> 200000, encoding |-> "undefined"] @@
    K_claude_3_sonnet :> [name |-> "Claude 3 Sonnet", provider |-> "Anthropic", inputPricePerMillion |-> Milli(3000),
        outputPricePerMillion |-> Milli(15000), contextWindow |-> 200000, encoding |-> "undefined"] @@
    K_claude_3_haiku :> [name |-> "Claude 3 Haiku", provider |-> "Anthropic", inputPricePerMillion |-> Milli(250),
        outputPricePerMillion |-> Milli(1250), contextWindow |-> 200000, encoding |-> "undefined"] @@
    K_gemini_2_0_flash :> [name |-> "Gemini 2.0 Flash", provider |-> "Google", inputPricePerMillion |-> Milli(0),
        outputPricePerMillion |-> Milli(0), contextWindow |-> 1000000, encoding |-> "undefined"] @@
    K_gemini_1_5_pro :> [name |-> "Gemini 1.5 Pro", provider |-> "Google", inputPricePerMillion |-> Milli(1250),
        outputPricePerMillion |-> Milli(5000), contextWindow |-> 2000000, encoding |-> "undefined"] @@
    K_gemini_1_5_flash :> [name |-> "Gemini 1.5 Flash", provider |-> "Google", inputPricePerMillion |-> Milli(75),
        outputPricePerMillion |-> Milli(300), contextWindow |-> 1000000, encoding |-> "undefined"] @@
    K_llama_3_1_405b :> [name |-> "Llama 3.1 405B", provider |-> "Meta", inputPricePerMillion |-> Milli(5000),
        outputPricePerMillion |-> Milli(15000), contextWindow |-> 128000, encoding |-> "undefined"] @@
    K_llama_3_1_70b :> [name |-> "Llama 3.1 70B", provider |-> "Meta", inputPricePerMillion |-> Milli(900),
        outputPricePerMillion |-> Milli(900), contextWindow |-> 128000, encoding |-> "undefined"] @@
    K_llama_3_1_8b :> [name |-> "Llama 3.1 8B", provider |-> "Meta", inputPricePerMillion |-> Milli(200),
        outputPricePerMillion |-> Milli(200), contextWindow |-> 128000, encoding |-> "undefined"]

MODEL_ALIASES ==
    K_gpt4o :> K_gpt_4o @@
    K_gpt4 :> K_gpt_4 @@
    K_gpt_4_0125_preview :> K_gpt_4_turbo @@
    K_gpt_4_1106_preview :> K_gpt_4_turbo @@
    K_gpt35 :> K_gpt_3_5_turbo @@
    K_gpt_3_5 :> K_gpt_3_5_turbo @@
    K_opus_4 :> K_claude_opus_4 @@
    K_sonnet_4 :> K_claude_sonnet_4 @@
    K_haiku_3_5 :> K_claude_haiku_3_5 @@
    K_opus :> K_claude_3_opus @@
    K_sonnet :> K_claude_3_sonnet @@
    K_haiku :> K_claude_3_haiku @@
    K_gemini_pro :> K_gemini_1_5_pro @@
    K_gemini_flash :> K_gemini_1_5_flash @@
    K_gemini :> K_gemini_1_5_pro


(***************************************************************************)
(* Bounds of the inputs                                                    *)
(***************************************************************************)
\* Texts have 0..MaxLen characters, besides the two long texts below.
MaxLen == 2
\* expectedOutputTokens ranges over 0..MaxOut, besides 500.
MaxOut == 1
\* candidateModels has at most MaxCands entries.
MaxCands == 2
\* At most MaxCalls calls enter getCachedPricing, and at most MaxLater
\* initializePricing calls are made after initialization.
MaxCalls == 2
MaxLater == 1
\* The clock advances at most MaxTicks times, half a cache window each.
MaxTicks == 2

(***************************************************************************)
(* State                                                                   *)
(***************************************************************************)
VARIABLES
    runtimePricing,     \* pricing.ts: let runtimePricing
    pricingInitialized, \* pricing.ts: let pricingInitialized
    cachedPricing,      \* pricing-fetcher.ts: let cachedPricing ([isNull, value])
    cacheTimestamp,     \* pricing-fetcher.ts: let cacheTimestamp
    clock,              \* Date.now()
    ticks,              \* how often the clock has advanced
    calls,              \* the initializePricing / getCachedPricing calls, in the order they started
    jobs,               \* the calls whose continuation is queued, oldest first
    res                 \* what the last cost / lookup / CLI operation returned

vars == <<runtimePricing, pricingInitialized, cachedPricing, cacheTimestamp,
          clock, ticks, calls, jobs, res>>

(***************************************************************************)
(* data/pricing.ts: getModelPricing                                        *)
(***************************************************************************)
NoRecord ==
    [name |-> "", provider |-> "", inputPricePerMillion |-> NaN,
     outputPricePerMillion |-> NaN, contextWindow |-> 0, encoding |-> "undefined"]

\* obj[key] of a plain object: an own property, else a property inherited
\* from Object.prototype (a function or an object, truthy, with none of the
\* fields of a pricing record), else undefined.
Prop(obj, key) ==
    IF key \in DOMAIN obj THEN [tag |-> "record", rec |-> obj[key]]
    ELSE IF key \in ObjectPrototypeKeys THEN [tag |-> "inherited", rec |-> NoRecord]
    ELSE [tag |-> "undefined", rec |-> NoRecord]

Null == [tag |-> "null", rec |-> NoRecord]
Truthy(v) == v.tag \in {"record", "inherited"}

\* MODEL_ALIASES[key]; its values are strings, and an inherited member is
\* no string that names a key of the catalog.
AliasProp(key) ==
    IF key \in DOMAIN MODEL_ALIASES THEN [tag |-> "string", key |-> MODEL_ALIASES[key]]
    ELSE IF key \in ObjectPrototypeKeys THEN [tag |-> "inherited", key |-> <<>>]
    ELSE [tag |-> "undefined", key |-> <<>>]

getModelPricing(model) ==
    LET normalizedModel == toLowerCase(model)
        aliasedModel == AliasProp(normalizedModel)
    IN  IF Truthy(Prop(runtimePricing, normalizedModel))
        THEN Prop(runtimePricing, normalizedModel)
        ELSE IF aliasedModel.tag = "string" /\ Truthy(Prop(runtimePricing, aliasedModel.key))
        THEN Prop(runtimePricing, aliasedModel.key)
        ELSE Null

(***************************************************************************)
(* core/tokenizer.ts                                                       *)
(* A text is [len, enc]: its length in characters and the number of token  *)
(* ids the external tiktoken encoder returns for it.                       *)
(***************************************************************************)
\* enc.encode(text).length
countOpenAITokens(text, model) == text.enc

\* Math.ceil(text.length / 4)
countClaudeTokens(text, model) == (text.len + 3) \div 4

countGeminiTokens(text, model) == (text.len + 3) \div 4

countLlamaTokens(text, model) == text.enc

countTokens_ClaudeFirst(text, model) ==
    LET normalizedModel == toLowerCase(model)
    IN  IF includes(normalizedModel, S_claude) THEN countClaudeTokens(text, model)
        ELSE IF includes(normalizedModel, S_gpt) THEN countOpenAITokens(text, model)
        ELSE IF includes(normalizedModel, S_gemini) THEN countGeminiTokens(text, model)
        ELSE IF includes(normalizedModel, S_llama) THEN countLlamaTokens(text, model)
        ELSE countOpenAITokens(text, model)

countTokens(text, model) ==
    LET normalizedModel == toLowerCase(model)
    IN  IF includes(normalizedModel, S_gpt) THEN countOpenAITokens(text, model)
        ELSE IF includes(normalizedModel, S_claude) THEN countClaudeTokens(text, model)
        ELSE IF includes(normalizedModel, S_gemini) THEN countGeminiTokens(text, model)
        ELSE IF includes(normalizedModel, S_llama) THEN countLlamaTokens(text, model)
        ELSE countOpenAITokens(text, model)

(***************************************************************************)
(* core/cost-calculator.ts                                                 *)
(***************************************************************************)
\* const x = v; ...: v is evaluated once and the rest reads the value.
Const(v, Rest(_)) == CHOOSE r \in {Rest(x) : x \in {v}} : TRUE

NoEstimate ==
    [model |-> <<>>, inputTokens |-> NaN, outputTokens |-> NaN, inputCost |-> NaN,
     outputCost |-> NaN, totalCost |-> NaN, costPerToken |-> NoQuot, pricing |-> Null]

Return(v) == [threw |-> FALSE, error |-> "", value |-> v]
Throw(msg, none) == [threw |-> TRUE, error |-> msg, value |-> none]

\* pricing.inputPricePerMillion: undefined, hence NaN in arithmetic, when
\* pricing is an inherited member and no record.
Field(pricing, f) == IF pricing.tag = "record" THEN pricing.rec[f] ELSE NaN

calculateCost_SwappedRates(inputText, model, estimatedOutputTokens) ==
    LET pricing == getModelPricing(model)
        inputTokens == Num(countTokens(inputText, model))
        outputTokens == estimatedOutputTokens
        inputCost == Mul(Div(inputTokens, Num(MILLION)), Field(pricing, "outputPricePerMillion"))
        outputCost == Mul(Div(outputTokens, Num(MILLION)), Field(pricing, "inputPricePerMillion"))
        totalCost == Add(inputCost, outputCost)
        costPerToken == Quot(totalCost, Add(inputTokens, outputTokens))
    IN  IF ~Truthy(pricing)
        THEN Throw("Unknown model", NoEstimate)
        ELSE Return([model |-> model, inputTokens |-> inputTokens,
                     outputTokens |-> outputTokens, inputCost |-> inputCost,
                     outputCost |-> outputCost, totalCost |-> totalCost,
                     costPerToken |-> costPerToken, pricing |-> pricing])

calculateCost(inputText, model, estimatedOutputTokens) ==
    LET pricing == getModelPricing(model)
        inputTokens == Num(countTokens(inputText, model))
        outputTokens == estimatedOutputTokens
        inputCost == Mul(Div(inputTokens, Num(MILLION)), Field(pricing, "inputPricePerMillion"))
        outputCost == Mul(Div(outputTokens, Num(MILLION)), Field(pricing, "outputPricePerMillion"))
        totalCost == Add(inputCost, outputCost)
        costPerToken == Quot(totalCost, Add(inputTokens, outputTokens))
    IN  IF ~Truthy(pricing)
        THEN Throw("Unknown model", NoEstimate)
        ELSE Return([model |-> model, inputTokens |-> inputTokens,
                     outputTokens |-> outputTokens, inputCost |-> inputCost,
                     outputCost |-> outputCost, totalCost |-> totalCost,
                     costPerToken |-> costPerToken, pricing |-> pricing])

\* The comparator (a, b) => b.savings - a.savings as Array.prototype.sort
\* reads it: its sign, with NaN read as +0.
SavingsComparator(a, b) == Sign(Sub(b.savings, a.savings))

\* Array.prototype.sort is stable: x goes behind every element that the
\* comparator does not order after it.
RECURSIVE Insert(_, _)
Insert(arr, x) ==
    Const(arr, LAMBDA sorted :
        IF sorted = <<>> THEN <<x>>
        ELSE IF SavingsComparator(sorted[Len(sorted)], x) > 0
        THEN Append(Insert(SubSeq(sorted, 1, Len(sorted) - 1), x), sorted[Len(sorted)])
        ELSE Append(sorted, x))

RECURSIVE SortBySavings(_)
SortBySavings(alternatives) ==
    Const(alternatives, LAMBDA arr :
        IF arr = <<>> THEN <<>>
        ELSE Insert(SortBySavings(SubSeq(arr, 1, Len(arr) - 1)), arr[Len(arr)]))

\* The callback of alternativeModels.map: an entry, or null when
\* calculateCost throws.
Alternative(current, inputText, model, estimatedOutputTokens) ==
    Const(calculateCost(inputText, model, estimatedOutputTokens), LAMBDA r :
        LET savings == Sub(current.totalCost, r.value.totalCost)
            savingsPercent == QTimes(Quot(savings, current.totalCost), 100)
        IN  [isNull |-> r.threw, model |-> model, estimate |-> r.value,
             savings |-> savings, savingsPercent |-> savingsPercent])

NoComparison == [current |-> NoEstimate, alternatives |-> <<>>]

compareCosts(inputText, currentModel, alternativeModels, estimatedOutputTokens) ==
    Const(calculateCost(inputText, currentModel, estimatedOutputTokens), LAMBDA c :
        LET mapped == [i \in 1..Len(alternativeModels) |->
                         Alternative(c.value, inputText, alternativeModels[i],
                                     estimatedOutputTokens)]
            filtered == SelectSeq(mapped, LAMBDA alt : ~alt.isNull)
            alternatives == SortBySavings(filtered)
        IN  IF c.threw
            THEN Throw(c.error, NoComparison)
            ELSE Return([current |-> c.value, alternatives |-> alternatives]))

EmptyText == [len |-> 0, enc |-> 0]

S_gpt_4o == <<"g", "p", "t", "-", "4", "o">>
S_mini == <<"m", "i", "n", "i">>
S_claude_opus == <<"c", "l", "a", "u", "d", "e", "-", "o", "p", "u", "s">>
S_gpt_4_turbo == <<"g", "p", "t", "-", "4", "-", "t", "u", "r", "b", "o">>

\* Math.abs, Math.min and Math.round (half-way cases round up)
MathAbs(x) == IF IsFinite(x) /\ x.num < 0 THEN Neg(x) ELSE IF x.kind = "-Infinity" THEN PosInfinity ELSE x
MathMin(a, b) ==
    IF a.kind = "NaN" \/ b.kind = "NaN" THEN NaN ELSE IF Lt(b, a) THEN b ELSE a
Floor(n, d) == IF n >= 0 THEN n \div d ELSE -((-n + d - 1) \div d)
MathRound(x) ==
    IF IsFinite(x) THEN Num(Floor(2 * x.num + x.den, 2 * x.den)) ELSE x

\* Number.prototype.toFixed(digits): the text of a number or quotient, held
\* as what it spells: "NaN", "Infinity", "-Infinity", or "digits" for the
\* decimal digits of a finite number (which digits is not modelled).
toFixed(x, digits) ==
    [text |-> IF x.kind = "finite" THEN "digits" ELSE x.kind,
     digits |-> digits]

getCostOptimizations_TrimAtThreshold(estimate) ==
    LET miniEstimate == calculateCost(EmptyText, K_gpt_4o_mini, estimate.outputTokens)
        first == includes(estimate.model, S_gpt_4o) /\ ~includes(estimate.model, S_mini)
        miniSavings ==
            Sub(Sub(estimate.totalCost,
                    Mul(Div(estimate.inputTokens, Num(MILLION)), Rat(15, 100))),
                Mul(Div(estimate.outputTokens, Num(MILLION)), Rat(60, 100)))
        inReduction == MathMin(Num(1000), Mul(estimate.inputTokens, Rat(3, 10)))
        inSaving == Mul(Div(inReduction, Num(MILLION)), Field(estimate.pricing, "inputPricePerMillion"))
        outReduction == MathMin(Num(500), Mul(estimate.outputTokens, Rat(2, 10)))
        outSaving == Mul(Div(outReduction, Num(MILLION)), Field(estimate.pricing, "outputPricePerMillion"))
        optimizations ==
            (IF first
             THEN << [suggestion |-> "Switch to gpt-4o-mini", tokens |-> Num(0),
                      savings |-> miniSavings,
                      percent |-> toFixed(QTimes(Quot(miniSavings, estimate.totalCost), 100), 0),
                      amount |-> toFixed(miniSavings, 4)] >>
             ELSE << >>)
            \o (IF includes(estimate.model, S_claude_opus)
                THEN << [suggestion |-> "Switch to claude-sonnet-4", tokens |-> Num(0),
                         savings |-> NaN, percent |-> toFixed(Num(80), 0),
                         amount |-> toFixed(NaN, 4)] >>
                ELSE << >>)
            \o (IF includes(estimate.model, S_gpt_4_turbo) \/ estimate.model = K_gpt_4
                THEN << [suggestion |-> "Switch to gpt-4o", tokens |-> Num(0),
                         savings |-> NaN, percent |-> toFixed(Num(50), 0),
                         amount |-> toFixed(NaN, 4)] >>
                ELSE << >>)
            \o (IF ~Lt(estimate.inputTokens, Num(1000))
                THEN << [suggestion |-> "Reduce context by", tokens |-> MathRound(inReduction),
                         savings |-> inSaving, percent |-> toFixed(NaN, 0),
                         amount |-> toFixed(inSaving, 4)] >>
                ELSE << >>)
            \o (IF Gt(estimate.outputTokens, Num(1000))
                THEN << [suggestion |-> "Request shorter responses", tokens |-> MathRound(outReduction),
                         savings |-> outSaving, percent |-> toFixed(NaN, 0),
                         amount |-> toFixed(outSaving, 4)] >>
                ELSE << >>)
    IN  IF first /\ miniEstimate.threw
        THEN Throw(miniEstimate.error, << >>)
        ELSE Return(optimizations)

getCostOptimizations(estimate) ==
    LET miniEstimate == calculateCost(EmptyText, K_gpt_4o_mini, estimate.outputTokens)
        first == includes(estimate.model, S_gpt_4o) /\ ~includes(estimate.model, S_mini)
        miniSavings ==
            Sub(Sub(estimate.totalCost,
                    Mul(Div(estimate.inputTokens, Num(MILLION)), Rat(15, 100))),
                Mul(Div(estimate.outputTokens, Num(MILLION)), Rat(60, 100)))
        inReduction == MathMin(Num(1000), Mul(estimate.inputTokens, Rat(3, 10)))
        inSaving == Mul(Div(inReduction, Num(MILLION)), Field(estimate.pricing, "inputPricePerMillion"))
        outReduction == MathMin(Num(500), Mul(estimate.outputTokens, Rat(2, 10)))
        outSaving == Mul(Div(outReduction, Num(MILLION)), Field(estimate.pricing, "outputPricePerMillion"))
        optimizations ==
            (IF first
             THEN << [suggestion |-> "Switch to gpt-4o-mini", tokens |-> Num(0),
                      savings |-> miniSavings,
                      percent |-> toFixed(QTimes(Quot(miniSavings, estimate.totalCost), 100), 0),
                      amount |-> toFixed(miniSavings, 4)] >>
             ELSE << >>)
            \o (IF includes(estimate.model, S_claude_opus)
                THEN << [suggestion |-> "Switch to claude-sonnet-4", tokens |-> Num(0),
                         savings |-> NaN, percent |-> toFixed(Num(80), 0),
                         amount |-> toFixed(NaN, 4)] >>
                ELSE << >>)
            \o (IF includes(estimate.model, S_gpt_4_turbo) \/ estimate.model = K_gpt_4
                THEN << [suggestion |-> "Switch to gpt-4o", tokens |-> Num(0),
                         savings |-> NaN, percent |-> toFixed(Num(50), 0),
                         amount |-> toFixed(NaN, 4)] >>
                ELSE << >>)
            \o (IF Gt(estimate.inputTokens, Num(1000))
                THEN << [suggestion |-> "Reduce context by", tokens |-> MathRound(inReduction),
                         savings |-> inSaving, percent |-> toFixed(NaN, 0),
                         amount |-> toFixed(inSaving, 4)] >>
                ELSE << >>)
            \o (IF Gt(estimate.outputTokens, Num(1000))
                THEN << [suggestion |-> "Request shorter responses", tokens |-> MathRound(outReduction),
                         savings |-> outSaving, percent |-> toFixed(NaN, 0),
                         amount |-> toFixed(outSaving, 4)] >>
                ELSE << >>)
    IN  IF first /\ miniEstimate.threw
        THEN Throw(miniEstimate.error, << >>)
        ELSE Return(optimizations)

formatCost(cost) ==
    IF Lt(cost, Milli(1)) THEN [unit |-> "m", number |-> toFixed(Mul(cost, Num(1000)), 4)]
    ELSE IF Lt(cost, Milli(10)) THEN [unit |-> "", number |-> toFixed(cost, 4)]
    ELSE IF Lt(cost, Milli(1000)) THEN [unit |-> "", number |-> toFixed(cost, 3)]
    ELSE [unit |-> "", number |-> toFixed(cost, 2)]

(***************************************************************************)
(* ui/formatter.ts: formatComparison, as the cells of the table and the    *)
(* "Best Alternative" lines                                                *)
(***************************************************************************)
ComparisonRow(alt) ==
    [name |-> IF alt.estimate.pricing.tag = "record" THEN alt.estimate.pricing.rec.name ELSE "",
     cost |-> formatCost(alt.estimate.totalCost),
     savingsSign |-> IF Gt(alt.savings, Num(0)) THEN "+" ELSE "",
     savings |-> formatCost(alt.savings),
     percentSign |-> IF alt.savingsPercent.sign > 0 THEN "" ELSE "-",
     percent |-> IF alt.savingsPercent.sign > 0
                 THEN toFixed(alt.savingsPercent, 0)
                 ELSE toFixed(QAbs(alt.savingsPercent), 0)]

formatComparison(comparison) ==
    Const(comparison.alternatives, LAMBDA alts :
        [totalCost |-> formatCost(comparison.current.totalCost),
         rows |-> [i \in 1..Len(alts) |-> ComparisonRow(alts[i])],
         best |-> IF Len(alts) > 0 /\ Gt(alts[1].savings, Num(0))
                  THEN << [model |-> alts[1].model, savings |-> formatCost(alts[1].savings),
                           percent |-> toFixed(alts[1].savingsPercent, 0)] >>
                  ELSE << >>])

(***************************************************************************)
(* cli/index.ts                                                            *)
(***************************************************************************)
Digits ==
    "0" :> 0 @@ "1" :> 1 @@ "2" :> 2 @@ "3" :> 3 @@ "4" :> 4 @@
    "5" :> 5 @@ "6" :> 6 @@ "7" :> 7 @@ "8" :> 8 @@ "9" :> 9

\* parseInt(s) for a decimal option value: the leading digits, NaN if none
RECURSIVE ParseDigits(_, _, _)
ParseDigits(s, i, acc) ==
    IF i > Len(s) \/ s[i] \notin DOMAIN Digits THEN acc
    ELSE ParseDigits(s, i + 1, 10 * acc + Digits[s[i]])

parseInt(s) ==
    LET neg == Len(s) > 0 /\ s[1] = "-"
        from == IF neg THEN 2 ELSE 1
    IN  IF from > Len(s) \/ s[from] \notin DOMAIN Digits THEN NaN
        ELSE Num((IF neg THEN -1 ELSE 1) * ParseDigits(s, from, 0))

\* The alternatives the compare command offers
PopularAlternatives ==
    <<K_gpt_4o_mini, K_gpt_3_5_turbo, K_claude_sonnet_4, K_claude_haiku_3_5, K_gemini_1_5_flash>>

\* count <input> --model M --output N [--simple]: exit code and output
CountCommand(text, model, output, simple) ==
    Const(calculateCost(text, model, parseInt(output)), LAMBDA estimate :
        IF estimate.threw
        THEN [exitCode |-> 1, stderr |-> estimate.error, estimate |-> NoEstimate]
        ELSE Const(getCostOptimizations(estimate.value), LAMBDA optimizations :
            IF ~simple /\ optimizations.threw
            THEN [exitCode |-> 1, stderr |-> optimizations.error, estimate |-> NoEstimate]
            ELSE [exitCode |-> 0, stderr |-> "", estimate |-> estimate.value]))

\* compare <input> --model M --output N: exit code, comparison and table
CompareCommand(text, model, output) ==
    LET outputTokens == parseInt(output)
        alternatives == SelectSeq(PopularAlternatives, LAMBDA m : m # model)
    IN  Const(compareCosts(text, model, alternatives, outputTokens), LAMBDA comparison :
            IF comparison.threw
            THEN [exitCode |-> 1, stderr |-> comparison.error, comparison |-> NoComparison,
                  stdout |-> formatComparison(NoComparison)]
            ELSE [exitCode |-> 0, stderr |-> "", comparison |-> comparison.value,
                  stdout |-> formatComparison(comparison.value)])

(***************************************************************************)
(* data/pricing-fetcher.ts                                                 *)
(***************************************************************************)
\* The keys of the remote document and of the records it adds
K_gpt_5_mini == <<"g", "p", "t", "-", "5", "-", "m", "i", "n", "i">>
K_gpt_5_nano == <<"g", "p", "t", "-", "5", "-", "n", "a", "n", "o">>
K_gpt_5_pro == <<"g", "p", "t", "-", "5", "-", "p", "r", "o">>
K_o1_preview == <<"o", "1", "-", "p", "r", "e", "v", "i", "e", "w">>
K_o1_mini == <<"o", "1", "-", "m", "i", "n", "i">>
K_claude_sonnet_4_5 == <<"c", "l", "a", "u", "d", "e", "-", "s", "o", "n", "n", "e", "t", "-", "4", "-", "5">>
K_claude_sonnet_4_5_20250929 == <<"c", "l", "a", "u", "d", "e", "-", "s", "o", "n", "n", "e", "t", "-", "4", "-", "5", "-", "2", "0", "2", "5", "0", "9", "2", "9">>
K_claude_opus_4_20250514 == <<"c", "l", "a", "u", "d", "e", "-", "o", "p", "u", "s", "-", "4", "-", "2", "0", "2", "5", "0", "5", "1", "4">>
K_claude_sonnet_4_20250514 == <<"c", "l", "a", "u", "d", "e", "-", "s", "o", "n", "n", "e", "t", "-", "4", "-", "2", "0", "2", "5", "0", "5", "1", "4">>
K_claude_3_5_sonnet_20241022 == <<"c", "l", "a", "u", "d", "e", "-", "3", "-", "5", "-", "s", "o", "n", "n", "e", "t", "-", "2", "0", "2", "4", "1", "0", "2", "2">>
K_claude_3_opus_20240229 == <<"c", "l", "a", "u", "d", "e", "-", "3", "-", "o", "p", "u", "s", "-", "2", "0", "2", "4", "0", "2", "2", "9">>
K_claude_3_sonnet_20240229 == <<"c", "l", "a", "u", "d", "e", "-", "3", "-", "s", "o", "n", "n", "e", "t", "-", "2", "0", "2", "4", "0", "2", "2", "9">>
K_claude_3_haiku_20240307 == <<"c", "l", "a", "u", "d", "e", "-", "3", "-", "h", "a", "i", "k", "u", "-", "2", "0", "2", "4", "0", "3", "0", "7">>
K_gemini_2_0_flash_exp == <<"g", "e", "m", "i", "n", "i", "-", "2", ".", "0", "-", "f", "l", "a", "s", "h", "-", "e", "x", "p">>
K_meta_llama_llama_3_1_405b_instruct == <<"m", "e", "t", "a", "-", "l", "l", "a", "m", "a", "/", "l", "l", "a", "m", "a", "-", "3", ".", "1", "-", "4", "0", "5", "b", "-", "i", "n", "s", "t", "r", "u", "c", "t">>
K_meta_llama_llama_3_1_70b_instruct == <<"m", "e", "t", "a", "-", "l", "l", "a", "m", "a", "/", "l", "l", "a", "m", "a", "-", "3", ".", "1", "-", "7", "0", "b", "-", "i", "n", "s", "t", "r", "u", "c", "t">>
K_meta_llama_llama_3_1_8b_instruct == <<"m", "e", "t", "a", "-", "l", "l", "a", "m", "a", "/", "l", "l", "a", "m", "a", "-", "3", ".", "1", "-", "8", "b", "-", "i", "n", "s", "t", "r", "u", "c", "t">>
K_deepseek_chat == <<"d", "e", "e", "p", "s", "e", "e", "k", "-", "c", "h", "a", "t">>
K_deepseek_reasoner == <<"d", "e", "e", "p", "s", "e", "e", "k", "-", "r", "e", "a", "s", "o", "n", "e", "r">>

\* convertLiteLLMPricing: const modelMappings
modelMappings ==
    K_gpt_5 :> [key |-> K_gpt_5, name |-> "GPT-5", provider |-> "OpenAI"] @@
    K_gpt_5_mini :> [key |-> K_gpt_5_mini, name |-> "GPT-5 Mini", provider |-> "OpenAI"] @@
    K_gpt_5_nano :> [key |-> K_gpt_5_nano, name |-> "GPT-5 Nano", provider |-> "OpenAI"] @@
    K_gpt_5_pro :> [key |-> K_gpt_5_pro, name |-> "GPT-5 Pro", provider |-> "OpenAI"] @@
    K_gpt_4o :> [key |-> K_gpt_4o, name |-> "GPT-4o", provider |-> "OpenAI"] @@
    K_gpt_4o_mini :> [key |-> K_gpt_4o_mini, name |-> "GPT-4o Mini", provider |-> "OpenAI"] @@
    K_gpt_4_turbo :> [key |-> K_gpt_4_turbo, name |-> "GPT-4 Turbo", provider |-> "OpenAI"] @@
    K_gpt_4 :> [key |-> K_gpt_4, name |-> "GPT-4", provider |-> "OpenAI"] @@
    K_gpt_3_5_turbo :> [key |-> K_gpt_3_5_turbo, name |-> "GPT-3.5 Turbo", provider |-> "OpenAI"] @@
    K_o1_preview :> [key |-> K_o1_preview, name |-> "O1 Preview", provider |-> "OpenAI"] @@
    K_o1_mini :> [key |-> K_o1_mini, name |-> "O1 Mini", provider |-> "OpenAI"] @@
    K_claude_sonnet_4_5 :> [key |-> K_claude_sonnet_4_5, name |-> "Claude Sonnet 4.5", provider |-> "Anthropic"] @@
    K_claude_sonnet_4_5_20250929 :> [key |-> K_claude_sonnet_4_5, name |-> "Claude Sonnet 4.5", provider |-> "Anthropic"] @@
    K_claude_opus_4_20250514 :> [key |-> K_claude_opus_4, name |-> "Claude Opus 4", provider |-> "Anthropic"] @@
    K_claude_sonnet_4_20250514 :> [key |-> K_claude_sonnet_4, name |-> "Claude Sonnet 4", provider |-> "Anthropic"] @@
    K_claude_3_5_sonnet_20241022 :> [key |-> K_claude_sonnet_3_5, name |-> "Claude 3.5 Sonnet", provider |-> "Anthropic"] @@
    K_claude_3_5_haiku_20241022 :> [key |-> K_claude_haiku_3_5, name |-> "Claude 3.5 Haiku", provider |-> "Anthropic"] @@
    K_claude_3_opus_20240229 :> [key |-> K_claude_3_opus, name |-> "Claude 3 Opus", provider |-> "Anthropic"] @@
    K_claude_3_sonnet_20240229 :> [key |-> K_claude_3_sonnet, name |-> "Claude 3 Sonnet", provider |-> "Anthropic"] @@
    K_claude_3_haiku_20240307 :> [key |-> K_claude_3_haiku, name |-> "Claude 3 Haiku", provider |-> "Anthropic"] @@
    K_gemini_2_0_flash_exp :> [key |-> K_gemini_2_0_flash, name |-> "Gemini 2.0 Flash", provider |-> "Google"] @@
    K_gemini_1_5_pro :> [key |-> K_gemini_1_5_pro, name |-> "Gemini 1.5 Pro", provider |-> "Google"] @@
    K_gemini_1_5_flash :> [key |-> K_gemini_1_5_flash, name |-> "Gemini 1.5 Flash", provider |-> "Google"] @@
    K_meta_llama_llama_3_1_405b_instruct :> [key |-> K_llama_3_1_405b, name |-> "Llama 3.1 405B", provider |-> "Meta"] @@
    K_meta_llama_llama_3_1_70b_instruct :> [key |-> K_llama_3_1_70b, name |-> "Llama 3.1 70B", provider |-> "Meta"] @@
    K_meta_llama_llama_3_1_8b_instruct :> [key |-> K_llama_3_1_8b, name |-> "Llama 3.1 8B", provider |-> "Meta"] @@
    K_deepseek_chat :> [key |-> K_deepseek_chat, name |-> "DeepSeek Chat", provider |-> "DeepSeek"] @@
    K_deepseek_reasoner :> [key |-> K_deepseek_reasoner, name |-> "DeepSeek Reasoner", provider |-> "DeepSeek"]

Undefined == [kind |-> "undefined", num |-> 0, den |-> 1]

\* !x for a number or undefined
Falsy(x) == x.kind \in {"undefined", "NaN"} \/ IsZero(x)

EmptyObject == [k \in {} |-> NoRecord]

\* modelMappings[litellmKey]; an inherited member is truthy and has no
\* key and no provider (its key reads undefined, the property "undefined").
Mapping(litellmKey) ==
    IF litellmKey \in DOMAIN modelMappings
    THEN [found |-> TRUE, m |-> modelMappings[litellmKey]]
    ELSE IF litellmKey \in ObjectPrototypeKeys
    THEN [found |-> TRUE, m |-> [key |-> K_undefined, name |-> "", provider |-> ""]]
    ELSE [found |-> FALSE, m |-> [key |-> <<>>, name |-> "", provider |-> ""]]

\* A remote document is the sequence of its [key, model] entries, in the
\* order Object.entries yields them.
RECURSIVE ConvertEntries(_, _)
ConvertEntries(entries, pricing) ==
    IF entries = <<>> THEN pricing
    ELSE LET litellmKey == Head(entries).key
             model == Head(entries).model
             mapping == Mapping(litellmKey)
             converted ==
                [name |-> mapping.m.name,
                 provider |-> mapping.m.provider,
                 inputPricePerMillion |-> Mul(model.input_cost_per_token, Num(MILLION)),
                 outputPricePerMillion |-> Mul(model.output_cost_per_token, Num(MILLION)),
                 contextWindow |-> IF model.max_input_tokens = 0 THEN 128000
                                   ELSE model.max_input_tokens,
                 encoding |-> IF mapping.m.provider = "OpenAI" THEN "cl100k_base"
                              ELSE "undefined"]
         IN  IF Falsy(model.input_cost_per_token) \/ Falsy(model.output_cost_per_token)
             THEN ConvertEntries(Tail(entries), pricing)
             ELSE IF ~mapping.found
             THEN ConvertEntries(Tail(entries), pricing)
             ELSE ConvertEntries(Tail(entries),
                    [k \in DOMAIN pricing \cup {mapping.m.key} |->
                        IF k = mapping.m.key THEN converted ELSE pricing[k]])

convertLiteLLMPricing(litellmData) == ConvertEntries(litellmData, EmptyObject)

\* What the remote source does: fetch() rejects, the status is not OK,
\* the body is no JSON, the body is the JSON value null, or the body is a
\* document.
fetchCommunityPricing(remote) ==
    LET thrown == remote.kind \in {"networkError", "notOk", "malformedJson", "jsonNull"}
    IN  IF thrown THEN Return(EmptyObject)
        ELSE Return(convertLiteLLMPricing(remote.data))

mergePricing_FallbackWins(communityPricing, fallbackPricing) ==
    [k \in DOMAIN fallbackPricing \cup DOMAIN communityPricing |->
        IF k \in DOMAIN fallbackPricing THEN fallbackPricing[k] ELSE communityPricing[k]]

\* { ...fallbackPricing, ...communityPricing }
mergePricing(communityPricing, fallbackPricing) ==
    [k \in DOMAIN fallbackPricing \cup DOMAIN communityPricing |->
        IF k \in DOMAIN communityPricing THEN communityPricing[k] ELSE fallbackPricing[k]]

CACHE_DURATION == 24 * 60 * 60 * 1000

\* The clock advances by half a cache window at a time.
TickStep == CACHE_DURATION \div 2

(***************************************************************************)
(* Inputs                                                                  *)
(***************************************************************************)
\* The first long text is Scenario A's: 4000 characters, 1000 token ids.
LongTexts == {[len |-> 4000, enc |-> 1000], [len |-> 8000, enc |-> 2100]}

\* The encoder returns no id for the empty text and at least one, at most
\* one per character, for any other.
Texts ==
    {t \in [len : 0..MaxLen, enc : 0..MaxLen] :
        IF t.len = 0 THEN t.enc = 0 ELSE t.enc >= 1 /\ t.enc <= t.len}
    \cup LongTexts

OutputTokenCounts == {Num(n) : n \in (0..MaxOut) \cup {500}}

K_GPT_4O_MINI == <<"G", "P", "T", "-", "4", "O", "-", "M", "I", "N", "I">>

\* Keys for the tokenizer dispatch: both markers, and another letter case
K_claude_gpt == <<"c", "l", "a", "u", "d", "e", "-", "g", "p", "t">>
K_Claude_3_Opus == <<"C", "l", "a", "u", "d", "e", "-", "3", "-", "O", "p", "u", "s">>
K_GEMINI_PRO == <<"G", "E", "M", "I", "N", "I", "-", "P", "R", "O">>

ModelKeys ==
    DOMAIN MODEL_PRICING \cup DOMAIN MODEL_ALIASES \cup
    {K_GPT_4O, K_GPT4o, K_Gpt_3_5_Turbo, K_GPT_4O_MINI, K_not_a_model, K_constructor,
     K___proto__, K_gpt_5, K_claude_3_5_haiku_20241022, K_unlisted_model}

\* Estimates for getCostOptimizations: token counts at, just above and well
\* above the two thresholds
OptimizationTexts ==
    {[len |-> 4000, enc |-> 1000], [len |-> 4004, enc |-> 1001],
     [len |-> 8000, enc |-> 2000], [len |-> 16000, enc |-> 4000]}

OptimizationOutputs == {Num(n) : n \in {500, 1000, 1001, 2000, 3000}}

OptimizationKeys ==
    {K_gpt_4o, K_GPT_4O, K_gpt4o, K_gpt_4o_mini, K_claude_opus_4, K_gpt_4_turbo,
     K_gemini_2_0_flash}

TokenizerKeys == ModelKeys \cup {K_claude_gpt, K_Claude_3_Opus, K_GEMINI_PRO}

BaselineKeys ==
    {K_gpt_4o, K_GPT_4O_MINI, K_gpt35, K_gemini_2_0_flash, K_claude_sonnet_4,
     K_not_a_model}

CandidateKeys ==
    {K_gpt_4o_mini, K_gpt35, K_gpt_3_5_turbo, K_gemini_2_0_flash, K_not_a_model,
     K_constructor}

CompareTexts == {EmptyText, [len |-> 1, enc |-> 1], [len |-> 4000, enc |-> 1000]}

CandidateLists == UNION {[1..n -> CandidateKeys] : n \in 0..MaxCands}

\* Values of the --output option
OutputOptions == {<<"5", "0", "0">>, <<"0">>, <<"a", "b", "c">>}

\* What the remote pricing source may answer
entry(key, inCost, outCost, maxIn) ==
    [key |-> key,
     model |-> [input_cost_per_token |-> inCost, output_cost_per_token |-> outCost,
                max_input_tokens |-> maxIn]]

RemoteDocA ==
    << entry(K_gpt_4o, Rat(25, 10000000), Rat(1, 100000), 128000),
       entry(K_gpt_4o_mini, Rat(2, 10000000), Rat(8, 10000000), 0),
       entry(K_gpt_5, Rat(125, 100000000), Rat(1, 100000), 272000),
       entry(K_claude_3_5_haiku_20241022, Rat(8, 10000000), Rat(4, 1000000), 200000),
       entry(K_unlisted_model, Rat(1, 1000000), Rat(1, 1000000), 0),
       entry(K_gemini_1_5_pro, Rat(125, 100000000), Undefined, 0) >>

RemoteDocB ==
    << entry(K_gemini_1_5_flash, Num(0), Num(0), 1000000),
       entry(K_gpt_4, Rat(3, 100000), Rat(6, 100000), 8192),
       entry(K_constructor, Rat(1, 1000000), Rat(2, 1000000), 0) >>

\* A remote document has at most MaxEntries entries.
MaxEntries == 2

\* Remote entries: listed identifiers (two of them renamed to the same
\* canonical key), a free model, one without output cost, an unlisted
\* identifier and an identifier every object inherits.
RemoteEntries ==
    { entry(K_gpt_4o, Rat(25, 10000000), Rat(1, 100000), 128000),
      entry(K_claude_sonnet_4_5, Rat(3, 1000000), Rat(15, 1000000), 200000),
      entry(K_claude_sonnet_4_5_20250929, Rat(4, 1000000), Rat(16, 1000000), 0),
      entry(K_gemini_1_5_flash, Num(0), Num(0), 1000000),
      entry(K_gemini_1_5_pro, Rat(125, 100000000), Undefined, 0),
      entry(K_unlisted_model, Rat(1, 1000000), Rat(1, 1000000), 0),
      entry(K_constructor, Rat(1, 1000000), Rat(2, 1000000), 0) }

\* The documents: own keys are distinct.
RemoteDocuments ==
    {d \in UNION {[1..n -> RemoteEntries] : n \in 0..MaxEntries} :
        \A i, j \in 1..Len(d) : i # j => d[i].key # d[j].key}
    \cup {RemoteDocA, RemoteDocB}

Remotes ==
    {[kind |-> k, data |-> << >>] : k \in {"networkError", "notOk", "malformedJson", "jsonNull"}}
    \cup {[kind |-> "document", data |-> d] : d \in {RemoteDocA, RemoteDocB}}

\* response.ok and a body that parses to a document
Succeeds(remote) == remote.kind = "document"

(***************************************************************************)
(* Initial state: the module-level declarations                            *)
(***************************************************************************)
\* Date.now() when the process starts
StartTime == 10 * CACHE_DURATION

NoRes ==
    [op |-> "none", text |-> EmptyText, model |-> << >>, cands |-> << >>,
     n |-> NaN, output |-> << >>, simple |-> FALSE, out |-> Null]

Init ==
    /\ runtimePricing = MODEL_PRICING
    /\ pricingInitialized = FALSE
    /\ cachedPricing = [isNull |-> TRUE, value |-> EmptyObject]
    /\ cacheTimestamp = 0
    /\ clock = StartTime
    /\ ticks = 0
    /\ calls = << >>
    /\ jobs = << >>
    /\ res = NoRes

(***************************************************************************)
(* initializePricing and getCachedPricing, one action per stretch of code  *)
(* between two awaits.  A continuation that an await has made ready waits  *)
(* in the job queue, and the queue is served first in, first out.          *)
(***************************************************************************)
\* A call: the function called, where it stands, the time getCachedPricing
\* read, whether it called fetch() and whether that succeeded, when
\* fetchCommunityPricing settled, and what fetchCommunityPricing and
\* getCachedPricing returned.
Call(fn, pc, now, fetched, ok, community, result) ==
    [fn |-> fn, pc |-> pc, now |-> now, fetched |-> fetched, ok |-> ok, settledAt |-> 0,
     community |-> community, result |-> result]

\* The calls that returned at once: they read no clock.
Later == {i \in 1..Len(calls) : calls[i].now = 0}

\* getCachedPricing() up to its first suspension: returns the cache when
\* it is fresh and else calls fetch().
GetCachedPricingEnter(fn) ==
    LET now == clock
    IN  /\ calls' = Append(calls,
              IF ~cachedPricing.isNull /\ now - cacheTimestamp < CACHE_DURATION
              THEN Call(fn, "returned", now, FALSE, FALSE, Return(EmptyObject),
                        cachedPricing.value)
              ELSE Call(fn, "fetching", now, TRUE, FALSE, Return(EmptyObject), EmptyObject))
        /\ jobs' = IF ~cachedPricing.isNull /\ now - cacheTimestamp < CACHE_DURATION
                   THEN Append(jobs, Len(calls) + 1)
                   ELSE jobs

\* initializePricing() up to its first suspension: returns at once when
\* pricingInitialized, else enters getCachedPricing.
InitializeStart ==
    /\ IF pricingInitialized
       THEN /\ Cardinality(Later) < MaxLater
            /\ calls' = Append(calls, Call("initializePricing", "done", 0, FALSE, FALSE,
                                            Return(EmptyObject), EmptyObject))
            /\ UNCHANGED jobs
       ELSE /\ Len(calls) - Cardinality(Later) < MaxCalls
            /\ GetCachedPricingEnter("initializePricing")
    /\ UNCHANGED <<runtimePricing, pricingInitialized, cachedPricing, cacheTimestamp,
                   clock, ticks, res>>

\* A direct call of the exported getCachedPricing(MODEL_PRICING)
GetCachedPricingStart ==
    /\ Len(calls) < MaxCalls
    /\ GetCachedPricingEnter("getCachedPricing")
    /\ UNCHANGED <<runtimePricing, pricingInitialized, cachedPricing, cacheTimestamp,
                   clock, ticks, res>>

\* The remote source answers call i, and fetchCommunityPricing settles:
\* the continuation of getCachedPricing is queued.
FetchSettles(i, remote) ==
    /\ calls[i].pc = "fetching"
    /\ calls' = [calls EXCEPT ![i].pc = "fetched", ![i].ok = Succeeds(remote),
                              ![i].settledAt = clock,
                              ![i].community = fetchCommunityPricing(remote)]
    /\ jobs' = Append(jobs, i)
    /\ UNCHANGED <<runtimePricing, pricingInitialized, cachedPricing, cacheTimestamp,
                   clock, ticks, res>>

\* A getCachedPricing whose first stored catalog is never overwritten
CacheStore_FirstWriteWins(i) ==
    /\ jobs # << >> /\ Head(jobs) = i
    /\ calls[i].pc = "fetched"
    /\ IF calls[i].community.threw
       THEN /\ calls' = [calls EXCEPT ![i].pc = "returned", ![i].result = MODEL_PRICING]
            /\ UNCHANGED <<cachedPricing, cacheTimestamp>>
       ELSE LET merged == mergePricing(calls[i].community.value, MODEL_PRICING)
            IN  /\ IF cachedPricing.isNull
                   THEN /\ cachedPricing' = [isNull |-> FALSE, value |-> merged]
                        /\ cacheTimestamp' = calls[i].now
                   ELSE UNCHANGED <<cachedPricing, cacheTimestamp>>
                /\ calls' = [calls EXCEPT ![i].pc = "returned", ![i].result = merged]
    /\ jobs' = Append(Tail(jobs), i)
    /\ UNCHANGED <<runtimePricing, pricingInitialized, clock, ticks, res>>

\* getCachedPricing after await fetchCommunityPricing(): stores the merged
\* catalog with the time read when the call began; its catch returns the
\* fallback and stores nothing.  The caller's continuation is queued.
CacheStore(i) ==
    /\ jobs # << >> /\ Head(jobs) = i
    /\ calls[i].pc = "fetched"
    /\ IF calls[i].community.threw
       THEN /\ calls' = [calls EXCEPT ![i].pc = "returned", ![i].result = MODEL_PRICING]
            /\ UNCHANGED <<cachedPricing, cacheTimestamp>>
       ELSE LET merged == mergePricing(calls[i].community.value, MODEL_PRICING)
            IN  /\ cachedPricing' = [isNull |-> FALSE, value |-> merged]
                /\ cacheTimestamp' = calls[i].now
                /\ calls' = [calls EXCEPT ![i].pc = "returned", ![i].result = merged]
    /\ jobs' = Append(Tail(jobs), i)
    /\ UNCHANGED <<runtimePricing, pricingInitialized, clock, ticks, res>>

\* initializePricing after await getCachedPricing(MODEL_PRICING)
InitializeFinish(i) ==
    /\ jobs # << >> /\ Head(jobs) = i
    /\ calls[i].pc = "returned" /\ calls[i].fn = "initializePricing"
    /\ runtimePricing' = calls[i].result
    /\ pricingInitialized' = TRUE
    /\ calls' = [calls EXCEPT ![i].pc = "done"]
    /\ jobs' = Tail(jobs)
    /\ UNCHANGED <<cachedPricing, cacheTimestamp, clock, ticks, res>>

\* The caller of a direct getCachedPricing call receives the result.
GetCachedPricingReturn(i) ==
    /\ jobs # << >> /\ Head(jobs) = i
    /\ calls[i].pc = "returned" /\ calls[i].fn = "getCachedPricing"
    /\ calls' = [calls EXCEPT ![i].pc = "done"]
    /\ jobs' = Tail(jobs)
    /\ UNCHANGED <<runtimePricing, pricingInitialized, cachedPricing, cacheTimestamp,
                   clock, ticks, res>>

\* Time passes, between two turns of the job queue.
Tick ==
    /\ ticks < MaxTicks
    /\ jobs = << >>
    /\ ticks' = ticks + 1
    /\ clock' = clock + TickStep
    /\ UNCHANGED <<runtimePricing, pricingInitialized, cachedPricing, cacheTimestamp,
                   calls, jobs, res>>

Next ==
    \/ InitializeStart
    \/ \E i \in 1..Len(calls), remote \in Remotes : FetchSettles(i, remote)
    \/ \E i \in 1..Len(calls) : CacheStore(i)
    \/ \E i \in 1..Len(calls) : InitializeFinish(i)
    \/ Tick

Spec == Init /\ [][Next]_vars

\* The queued continuations run: the job queue is served until it is empty.
\* Nothing makes fetch() settle: the call passes no signal and no timeout.
RunJob == \E i \in 1..Len(calls) : CacheStore(i) \/ InitializeFinish(i)

LiveSpec == Spec /\ WF_vars(RunJob)

\* The exported getCachedPricing called directly
CacheNext ==
    \/ GetCachedPricingStart
    \/ \E i \in 1..Len(calls), remote \in Remotes : FetchSettles(i, remote)
    \/ \E i \in 1..Len(calls) : CacheStore(i)
    \/ \E i \in 1..Len(calls) : GetCachedPricingReturn(i)
    \/ Tick

CacheSpec == Init /\ [][CacheNext]_vars

(***************************************************************************)
(* The cost operations, on the catalog of a fresh process or of a process  *)
(* whose one initializePricing call has completed                          *)
(***************************************************************************)
InitializedWith(remote) ==
    LET community == fetchCommunityPricing(remote)
        merged == mergePricing(community.value, MODEL_PRICING)
    IN  /\ runtimePricing = merged
        /\ pricingInitialized = TRUE
        /\ cachedPricing = [isNull |-> FALSE, value |-> merged]
        /\ cacheTimestamp = StartTime
        /\ clock = StartTime
        /\ ticks = 0
        /\ calls = << Call("initializePricing", "done", StartTime, TRUE, Succeeds(remote),
                            community, merged) >>
        /\ jobs = << >>
        /\ res = NoRes

CostInit ==
    \/ Init
    \/ \E remote \in Remotes : remote.kind = "document" /\ InitializedWith(remote)

\* One operation is applied to the catalog; res holds its arguments and
\* what it returned.  No cost operation writes the catalog or the cache.
Op(op, text, model, cands, n, output, simple, out) ==
    /\ res' = [op |-> op, text |-> text, model |-> model, cands |-> cands, n |-> n,
               output |-> output, simple |-> simple, out |-> out]
    /\ UNCHANGED <<runtimePricing, pricingInitialized, cachedPricing, cacheTimestamp,
                   clock, ticks, calls, jobs>>

GetModelPricing(model) ==
    Op("getModelPricing", EmptyText, model, << >>, NaN, << >>, FALSE, getModelPricing(model))

CountTokens(text, model) ==
    Op("countTokens", text, model, << >>, NaN, << >>, FALSE, Num(countTokens(text, model)))

\* getCostOptimizations on the estimate calculateCost returns
GetCostOptimizations(text, model, n) ==
    \E estimate \in {calculateCost(text, model, n)} :
        /\ ~estimate.threw
        /\ Op("getCostOptimizations", text, model, << >>, n, << >>, FALSE,
              [estimate |-> estimate.value,
               optimizations |-> getCostOptimizations(estimate.value)])

ConvertLiteLLMPricing(litellmData) ==
    Op("convertLiteLLMPricing", EmptyText, << >>, litellmData, NaN, << >>, FALSE,
       convertLiteLLMPricing(litellmData))

CalculateCost(text, model, n) ==
    Op("calculateCost", text, model, << >>, n, << >>, FALSE, calculateCost(text, model, n))

CompareCosts(text, model, cands, n) ==
    Op("compareCosts", text, model, cands, n, << >>, FALSE, compareCosts(text, model, cands, n))

CliCount(text, model, output, simple) ==
    Op("count", text, model, << >>, NaN, output, simple, CountCommand(text, model, output, simple))

CliCompare(text, model, output) ==
    Op("compare", text, model, << >>, NaN, output, FALSE, CompareCommand(text, model, output))

CostNext ==
    \/ res.op = "none" /\ \E model \in ModelKeys : GetModelPricing(model)
    \/ res.op = "none" /\ \E text \in Texts, model \in TokenizerKeys : CountTokens(text, model)
    \/ res.op = "none" /\ \E litellmData \in RemoteDocuments : ConvertLiteLLMPricing(litellmData)
    \/ res.op = "none" /\ \E text \in Texts, model \in ModelKeys, n \in OutputTokenCounts :
          CalculateCost(text, model, n)
    \/ res.op = "none" /\ \E text \in OptimizationTexts, model \in OptimizationKeys,
                             n \in OptimizationOutputs :
          GetCostOptimizations(text, model, n)
    \/ res.op = "none" /\ \E text \in CompareTexts, model \in BaselineKeys,
                             cands \in CandidateLists, n \in OutputTokenCounts :
          CompareCosts(text, model, cands, n)
    \/ res.op = "none" /\ \E text \in CompareTexts, model \in BaselineKeys,
                             output \in OutputOptions, simple \in BOOLEAN :
          CliCount(text, model, output, simple)
    \/ res.op = "none" /\ \E text \in CompareTexts, model \in BaselineKeys \cup CandidateKeys,
                             output \in OutputOptions :
          CliCompare(text, model, output)

CostSpec == CostInit /\ [][CostNext]_vars

(***************************************************************************)
(* Properties                                                              *)
(***************************************************************************)
\* The canonical key under which the catalog holds a record for a model
\* key: the lowercased key, else its alias target; << >> if there is none.
CatalogKeyOf(key) ==
    LET k == toLowerCase(key)
    IN  IF k \in DOMAIN runtimePricing THEN <<k>>
        ELSE IF k \in DOMAIN MODEL_ALIASES /\ MODEL_ALIASES[k] \in DOMAIN runtimePricing
        THEN <<MODEL_ALIASES[k]>>
        ELSE << >>

Resolvable(key) == CatalogKeyOf(key) # << >>
RecordOf(key) == runtimePricing[CatalogKeyOf(key)[1]]

\* a >= b
Ge(a, b) == a.kind # "NaN" /\ b.kind # "NaN" /\ ~Lt(a, b)

\* C1: for a resolvable model key, calculateCost returns the tokenizer's
\* count, the given output tokens, inputCost = inputTokens / 1,000,000 x
\* input rate, outputCost likewise, and totalCost = their sum; 1000 tokens
\* at $5/M plus 500 at $15/M cost 0.005 + 0.0075 = 0.0125, and a model
\* with both rates 0 costs 0.
C1_CostFormula ==
    (res.op = "calculateCost" /\ Resolvable(res.model)) =>
        LET e == res.out.value
            p == RecordOf(res.model)
        IN  /\ ~res.out.threw
            /\ e.inputTokens = Num(countTokens(res.text, res.model))
            /\ e.outputTokens = res.n
            /\ Mul(e.inputCost, Num(MILLION)) = Mul(e.inputTokens, p.inputPricePerMillion)
            /\ Mul(e.outputCost, Num(MILLION)) = Mul(e.outputTokens, p.outputPricePerMillion)
            /\ e.totalCost = Add(e.inputCost, e.outputCost)
            /\ (/\ e.inputTokens = Num(1000) /\ p.inputPricePerMillion = Num(5)
                /\ e.outputTokens = Num(500) /\ p.outputPricePerMillion = Num(15))
               => (/\ e.inputCost = Rat(5, 1000) /\ e.outputCost = Rat(75, 10000)
                   /\ e.totalCost = Rat(125, 10000))
            /\ (IsZero(p.inputPricePerMillion) /\ IsZero(p.outputPricePerMillion))
               => e.totalCost = Num(0)

\* C1 witness: Scenario A has been computed.
C1_ScenarioA ==
    /\ res.op = "calculateCost" /\ ~res.out.threw
    /\ res.out.value.inputTokens = Num(1000) /\ res.out.value.outputTokens = Num(500)
    /\ res.out.value.pricing.rec.inputPricePerMillion = Num(5)
    /\ res.out.value.pricing.rec.outputPricePerMillion = Num(15)
    /\ res.out.value.totalCost = Rat(125, 10000)

\* C2: calculateCost fails with "Unknown model" and yields no estimate
\* whenever the catalog holds no record for the lowercased key or its alias;
\* count and compare then exit with code 1, and with 0 otherwise.
C2_UnknownModelFails ==
    /\ (res.op = "calculateCost" /\ ~Resolvable(res.model))
          => (res.out.threw /\ res.out.error = "Unknown model")
    /\ (res.op \in {"count", "compare"} /\ ~Resolvable(res.model))
          => (res.out.exitCode = 1 /\ res.out.stderr = "Unknown model")
    /\ (res.op \in {"count", "compare"} /\ Resolvable(res.model))
          => res.out.exitCode = 0

\* The positions of the entries of alternatives in candidateModels, when
\* alternatives is a subsequence of a permutation of it: some strictly
\* increasing choice of positions for entries that tie.
TiesKeepOrder(alts, cands) ==
    \A i, j \in 1..Len(alts) :
        (i < j /\ alts[i].savings = alts[j].savings /\ alts[i].model # alts[j].model)
            => \E a, b \in 1..Len(cands) :
                  a < b /\ cands[a] = alts[i].model /\ cands[b] = alts[j].model

\* C3: the alternatives of compareCosts are ordered by savings descending
\* (each entry's savings >= the next entry's), and candidates with equal
\* savings keep the order they had in candidateModels.
C3_SortedBySavings ==
    (res.op = "compareCosts" /\ ~res.out.threw) =>
        LET alts == res.out.value.alternatives
        IN  /\ \A i \in 1..(Len(alts) - 1) : Ge(alts[i].savings, alts[i + 1].savings)
            /\ \A i \in 1..Len(alts) :
                  alts[i].savings = Sub(res.out.value.current.totalCost,
                                        alts[i].estimate.totalCost)
            /\ TiesKeepOrder(alts, res.cands)

\* C4: compareCosts fails with "Unknown model" when the baseline has no
\* record; otherwise it returns, and the models of its alternatives are
\* exactly the candidates that have a record, once per occurrence.
C4_CandidatesDropped ==
    res.op = "compareCosts" =>
        IF ~Resolvable(res.model)
        THEN res.out.threw /\ res.out.error = "Unknown model"
        ELSE /\ ~res.out.threw
             /\ LET alts == res.out.value.alternatives
                    kept == SelectSeq(res.cands, Resolvable)
                IN  /\ Len(alts) = Len(kept)
                    /\ \A k \in CandidateKeys :
                          Cardinality({i \in 1..Len(alts) : alts[i].model = k})
                            = Cardinality({i \in 1..Len(kept) : kept[i] = k})

\* C5: the alternatives never hold an entry for the baseline's record,
\* under any spelling, for compareCosts and for the compare command.
C5_NoBaselineAmongAlternatives ==
    /\ (res.op = "compareCosts" /\ ~res.out.threw) =>
          \A i \in 1..Len(res.out.value.alternatives) :
              CatalogKeyOf(res.out.value.alternatives[i].model) # CatalogKeyOf(res.model)
    /\ (res.op = "compare" /\ res.out.exitCode = 0) =>
          \A i \in 1..Len(res.out.comparison.alternatives) :
              CatalogKeyOf(res.out.comparison.alternatives[i].model) # CatalogKeyOf(res.model)

NonFiniteTexts == {"NaN", "Infinity", "-Infinity"}

\* C6: when the baseline's totalCost is 0, no alternative's savingsPercent
\* is NaN or infinite, and the rendered comparison shows no NaN/Infinity.
C6_PercentGuarded ==
    /\ (res.op = "compareCosts" /\ ~res.out.threw /\ IsZero(res.out.value.current.totalCost)) =>
          \A i \in 1..Len(res.out.value.alternatives) :
              Resolvable(res.out.value.alternatives[i].model)
                  => res.out.value.alternatives[i].savingsPercent.kind = "finite"
    /\ (res.op = "compare" /\ res.out.exitCode = 0
          /\ IsZero(res.out.comparison.current.totalCost)) =>
          /\ \A i \in 1..Len(res.out.stdout.rows) :
                res.out.stdout.rows[i].percent.text \notin NonFiniteTexts
          /\ \A i \in 1..Len(res.out.stdout.best) :
                res.out.stdout.best[i].percent.text \notin NonFiniteTexts

\* C7: costPerToken is totalCost / (inputTokens + expectedOutputTokens),
\* and is guarded when that sum is 0: no estimate carries a non-finite
\* costPerToken.
C7_CostPerTokenGuarded ==
    (res.op = "calculateCost" /\ Resolvable(res.model) /\ ~res.out.threw) =>
        /\ res.out.value.costPerToken.dividend = res.out.value.totalCost
        /\ res.out.value.costPerToken.divisor =
              Add(res.out.value.inputTokens, res.n)
        /\ res.out.value.costPerToken.kind = "finite"

\* C8: getModelPricing returns the record under the lowercased key, else
\* the record under the alias target of the lowercased key, else null; so
\* "gpt4o" and "gpt-4o", in any case, yield the same record.
C8_Resolve ==
    res.op = "getModelPricing" =>
        /\ res.out = IF Resolvable(res.model)
                     THEN [tag |-> "record", rec |-> RecordOf(res.model)]
                     ELSE Null
        /\ res.model \in {K_gpt4o, K_GPT4o, K_gpt_4o, K_GPT_4O}
              => res.out = [tag |-> "record", rec |-> runtimePricing[K_gpt_4o]]

Fetching == {i \in 1..Len(calls) : calls[i].pc = "fetching"}

\* The catalog the claim C9 describes for a call that fetched: per key, the
\* record the fetch produced if it succeeded and produced one, else the
\* default record.
CatalogAfter(call) ==
    LET produced == IF call.ok THEN call.community.value ELSE EmptyObject
    IN  [k \in DOMAIN MODEL_PRICING \cup DOMAIN produced |->
            IF k \in DOMAIN produced THEN produced[k] ELSE MODEL_PRICING[k]]

\* C9: initializePricing never throws, whatever the fetch does; when a call
\* that fetched returns, the catalog holds the fetched record for each key
\* the successful fetch produced and the default record for every other
\* key, so after a failed fetch it is the default table.
C9_InitializeAbsorbsFailure ==
    [][/\ \A i \in 1..Len(calls') : ~calls'[i].community.threw
       /\ \A i \in 1..Len(calls) :
             (calls[i].pc = "returned" /\ calls'[i].pc = "done" /\ calls[i].fetched) =>
                 /\ pricingInitialized'
                 /\ runtimePricing' = CatalogAfter(calls[i])
                 /\ ~calls[i].ok => runtimePricing' = MODEL_PRICING
                 /\ \A k \in DOMAIN MODEL_PRICING : k \in DOMAIN runtimePricing']_vars

\* C9 witness: a call whose fetch failed and a call whose fetch succeeded
\* have both returned.
C9_FailedAndSucceededReturned ==
    \E i, j \in 1..Len(calls) :
        /\ calls[i].pc = "done" /\ calls[i].fetched /\ ~calls[i].ok
        /\ calls[j].pc = "done" /\ calls[j].fetched /\ calls[j].ok
        /\ pricingInitialized

\* C10: when initializePricing calls overlap, at most one network fetch is
\* in flight at any time.
C10_OneFetchInFlight == Cardinality(Fetching) <= 1

Completed == {i \in 1..Len(calls) : calls[i].pc = "done"}

\* C11: once one initializePricing call has completed, the catalog never
\* changes again, and every initializePricing call that starts afterwards
\* is a no-op that starts no fetch; so getModelPricing keeps returning the
\* same record for the same key.
C11_CatalogFrozenAfterInit ==
    [][Completed # {} =>
          /\ runtimePricing' = runtimePricing
          /\ \A key \in ModelKeys : getModelPricing(key)' = getModelPricing(key)
          /\ Len(calls') > Len(calls) =>
                (calls'[Len(calls')].pc = "done" /\ ~calls'[Len(calls')].fetched)]_vars

\* The calls whose successful fetch getCachedPricing has stored, and the
\* moment the latest of these fetches succeeded
Stored ==
    {i \in 1..Len(calls) : calls[i].pc \in {"returned", "done"} /\ calls[i].fetched /\ calls[i].ok}

LastSuccess == CHOOSE t \in {calls[i].settledAt : i \in Stored} :
                  \A i \in Stored : calls[i].settledAt <= t

NoFetchFailed ==
    \A i \in 1..Len(calls) : (calls[i].fetched /\ calls[i].pc # "fetching") => calls[i].ok

\* C12: after a successful fetch, a getCachedPricing call made less than 24
\* hours after the moment the fetch succeeded starts no fetch, and a call
\* made 24 hours or more after that moment fetches again (stated for runs
\* in which no fetch has failed).
C12_WindowFromFetchCompletion ==
    [][(Len(calls') > Len(calls) /\ Stored # {} /\ NoFetchFailed) =>
          (calls'[Len(calls')].fetched <=> clock - LastSuccess >= CACHE_DURATION)]_vars

\* C13: every initializePricing call eventually returns, also when the
\* remote source never answers.
C13_EveryCallReturns ==
    \A i \in 1..(MaxCalls + MaxLater) :
        [](Len(calls) >= i => <>(Len(calls) >= i /\ calls[i].pc = "done"))

\* ceil(len / 4): the least n with 4 n >= len
CeilQuarter(len) == CHOOSE n \in 0..len : 4 * n >= len /\ \A m \in 0..(n - 1) : 4 * m < len

Contains(key, marker) ==
    \E i \in 1..(Len(key) - Len(marker) + 1) : SubSeq(key, i, i + Len(marker) - 1) = marker

Lower(key) == [i \in 1..Len(key) |-> IF key[i] \in DOMAIN UpperToLower THEN UpperToLower[key[i]]
                                     ELSE key[i]]

\* C14: countTokens takes the first rule the lowercased key matches: "gpt"
\* -> the encoder's count, "claude" -> heuristic, "gemini" -> heuristic,
\* anything else -> the encoder's count; the heuristic count is
\* ceil(length / 4), 0 for the empty text and never negative.
C14_TokenizerDispatch ==
    res.op = "countTokens" =>
        LET key == Lower(res.model)
            heuristic == CeilQuarter(res.text.len)
        IN  /\ res.out = IF Contains(key, S_gpt) THEN Num(res.text.enc)
                         ELSE IF Contains(key, S_claude) THEN Num(heuristic)
                         ELSE IF Contains(key, S_gemini) THEN Num(heuristic)
                         ELSE Num(res.text.enc)
            /\ heuristic >= 0
            /\ res.text.len = 0 => heuristic = 0

\* C14 witness: a key with both markers has been counted by the encoder,
\* on a text whose heuristic count differs.
C14_BothMarkersCountedExactly ==
    /\ res.op = "countTokens" /\ res.model = K_claude_gpt
    /\ res.text.enc # CeilQuarter(res.text.len)
    /\ res.out = Num(res.text.enc)

Min(a, b) == IF Lt(b, a) THEN b ELSE a

\* The positions of the suggestions of one kind
Suggested(opts, kinds) == {i \in 1..Len(opts) : opts[i].suggestion \in kinds}

SwitchSuggestions == {"Switch to gpt-4o-mini", "Switch to claude-sonnet-4", "Switch to gpt-4o"}

\* What C15 says but for the token count the suggestion shows
TrimSuggestions(shown(_)) ==
    LET e == res.out.estimate
        opts == res.out.optimizations.value
        ctx == Suggested(opts, {"Reduce context by"})
        out == Suggested(opts, {"Request shorter responses"})
        inR == Min(Num(1000), Mul(e.inputTokens, Rat(3, 10)))
        outR == Min(Num(500), Mul(e.outputTokens, Rat(2, 10)))
    IN  /\ ~res.out.optimizations.threw
        /\ Cardinality(ctx) = IF Gt(e.inputTokens, Num(1000)) THEN 1 ELSE 0
        /\ Cardinality(out) = IF Gt(e.outputTokens, Num(1000)) THEN 1 ELSE 0
        /\ \A i \in ctx :
              /\ opts[i].tokens = shown(inR)
              /\ Mul(opts[i].savings, Num(MILLION)) = Mul(inR, e.pricing.rec.inputPricePerMillion)
        /\ \A i \in out :
              /\ opts[i].tokens = shown(outR)
              /\ Mul(opts[i].savings, Num(MILLION)) = Mul(outR, e.pricing.rec.outputPricePerMillion)
        /\ \A i \in Suggested(opts, SwitchSuggestions), j \in ctx \cup out : i < j
        /\ \A i \in ctx, j \in out : i < j
        /\ (e.model = K_gpt_4o /\ e.inputTokens = Num(2000)) =>
              /\ opts[1].suggestion = "Switch to gpt-4o-mini"
              /\ opts[2].suggestion = "Reduce context by" /\ opts[2].tokens = Num(600)

C16_MiniSwitchUsesCatalogRates ==
    (res.op = "getCostOptimizations" /\ res.model = K_gpt_4o) =>
        LET e == res.out.estimate
            opts == res.out.optimizations.value
            mini == runtimePricing[K_gpt_4o_mini]
        IN  /\ ~res.out.optimizations.threw
            /\ Len(opts) >= 1
            /\ opts[1].suggestion = "Switch to gpt-4o-mini"
            /\ Mul(Sub(e.totalCost, opts[1].savings), Num(MILLION))
                  = Add(Mul(e.inputTokens, mini.inputPricePerMillion),
                        Mul(e.outputTokens, mini.outputPricePerMillion))

\* The initializePricing calls that performed a fetch
Racers == {i \in 1..Len(calls) : calls[i].fn = "initializePricing" /\ calls[i].fetched}

BothReturned == Cardinality(Racers) >= 2 /\ \A i \in 1..Len(calls) : calls[i].pc = "done"

\* C17: once two initializePricing calls that both fetched have returned,
\* the catalog is the default table overlaid with the result of exactly one
\* of the fetches, it equals the cached catalog, and every later
\* initializePricing call does nothing.
C17_RaceIsHarmless ==
    [][BothReturned =>
          /\ pricingInitialized
          /\ \E i \in Racers : runtimePricing = CatalogAfter(calls[i])
          /\ ~cachedPricing.isNull /\ runtimePricing = cachedPricing.value
          /\ Len(calls') > Len(calls) =>
                /\ calls'[Len(calls')].pc = "done" /\ ~calls'[Len(calls')].fetched
                /\ runtimePricing' = runtimePricing /\ cachedPricing' = cachedPricing
                /\ jobs' = jobs]_vars

\* C17 witness: two calls fetched different documents and both returned, and
\* a later call has returned at once.
C17_RacedThenCalledAgain ==
    \E i, j, k \in 1..Len(calls) :
        /\ i < j /\ j < k
        /\ calls[i].fetched /\ calls[j].fetched /\ ~calls[k].fetched
        /\ calls[i].ok /\ calls[j].ok /\ calls[i].community # calls[j].community
        /\ \A c \in 1..Len(calls) : calls[c].pc = "done"

\* The remote entries of a document that the claim C18 says yield the record
\* under canonical key k: the identifier is renamed to k by the table and
\* both cost fields are present.
SourcesOf(litellmData, k) ==
    {i \in 1..Len(litellmData) :
        /\ litellmData[i].key \in DOMAIN modelMappings
        /\ modelMappings[litellmData[i].key].key = k
        /\ litellmData[i].model.input_cost_per_token.kind # "undefined"
        /\ litellmData[i].model.output_cost_per_token.kind # "undefined"}

\* C18: the conversion yields a record under canonical key k if and only if
\* some remote entry whose identifier maps to k in the table carries both
\* cost fields; identifiers outside the table and entries missing a cost
\* field are skipped; each record's prices are the per-token costs times
\* 1,000,000.
C18_ConversionIffListedWithCosts ==
    res.op = "convertLiteLLMPricing" =>
        /\ \A k \in DOMAIN res.out \cup {modelMappings[x].key : x \in DOMAIN modelMappings} :
              k \in DOMAIN res.out <=> SourcesOf(res.cands, k) # {}
        /\ \A k \in DOMAIN res.out :
              \E i \in SourcesOf(res.cands, k) :
                 /\ res.out[k].inputPricePerMillion =
                       Mul(res.cands[i].model.input_cost_per_token, Num(MILLION))
                 /\ res.out[k].outputPricePerMillion =
                       Mul(res.cands[i].model.output_cost_per_token, Num(MILLION))

\* The calls whose successful fetch has been stored
StoredSuccess ==
    {i \in 1..Len(calls) : calls[i].fetched /\ calls[i].ok /\ calls[i].pc \in {"returned", "done"}}

\* C19: only a successful fetch is cached: when the fetch of a
\* getCachedPricing call failed, the call returns the default pricing and
\* leaves the cache and its timestamp as they were, and as long as no
\* successful fetch has been stored every new call fetches.
C19_OnlySuccessIsCached ==
    [][/\ \A i \in 1..Len(calls) :
             (calls[i].pc = "fetched" /\ ~calls[i].ok /\ calls'[i].pc = "returned") =>
                 /\ calls'[i].result = MODEL_PRICING
                 /\ cachedPricing' = cachedPricing
                 /\ cacheTimestamp' = cacheTimestamp
       /\ (Len(calls') > Len(calls) /\ StoredSuccess = {}) => calls'[Len(calls')].fetched]_vars

\* C20: for an alias or another letter case of a canonical key,
\* calculateCost has the same inputTokens, inputCost, outputCost and
\* totalCost as for the canonical key itself: the tokens are counted as for
\* the resolved model.
C20_AliasCostsLikeCanonicalKey ==
    (res.op = "calculateCost" /\ Resolvable(res.model)) =>
        LET byKey == calculateCost(res.text, CatalogKeyOf(res.model)[1], res.n)
        IN  /\ ~res.out.threw /\ ~byKey.threw
            /\ res.out.value.inputTokens = byKey.value.inputTokens
            /\ res.out.value.inputCost = byKey.value.inputCost
            /\ res.out.value.outputCost = byKey.value.outputCost
            /\ res.out.value.totalCost = byKey.value.totalCost

====
